---- MODULE Spec2Model ----
(***************************************************************************)
(* The todo application with task dependencies and Critical Path Method    *)
(* scheduling: the task store behind /api/todos, the editing surface of    *)
(* app/page.tsx (candidate list, cycle check, create and edit handlers)    *)
(* and the scheduling engine lib/criticalPath.ts.                          *)
(*                                                                         *)
(* Dates are JavaScript time values: integer milliseconds since the epoch. *)
(* An optional date (Date | null) is Null or Date(t).  The engine works in *)
(* local time (setHours, getDate, setDate): the process time zone is a     *)
(* record [before, changeAt, after], the offset of local time from UTC     *)
(* before and from the instant changeAt on (a daylight saving change; a    *)
(* zone without one has before = after).  The clock is read anew by every  *)
(* new Date(): a run is given the sequence of instants its successive      *)
(* readings return.                                                        *)
(***************************************************************************)
EXTENDS Integers, Sequences, FiniteSets, Bags, TLC

VARIABLES
    store,                  \* the Todo table: id -> [dueDate, dependencies]
    nextId,                 \* the autoincrement of Todo.id
    todos,                  \* Home: the todos state (last fetched list)
    selectedDependencies,   \* Home: ids ticked in the create form
    editingTodoId,          \* Home: the todo whose dependencies are edited, 0 = none
    editDependencies,       \* Home: ids ticked in the edit form
    zone,                   \* the time zone of the process
    clock,                  \* what the clock readings of the last scheduling run return
    todosWithCriticalPath,  \* Home: the memoised result of calculateCriticalPath
    pc,                     \* which specification drives the state, and its step
    levels,                 \* DependencyGraph: the levels map, <<>> while not drawn
    pending,                \* the requests of Home on their way, a bag
    runs,                   \* how often setTodos has run
    showGraph               \* Home: the dependency graph is shown

vars == <<store, nextId, todos, selectedDependencies, editingTodoId,
          editDependencies, zone, clock, todosWithCriticalPath, pc, levels,
          pending, runs, showGraph>>

----------------------------------------------------------------------------
(* Bounds of the model *)

MaxTasks == 3        \* tasks in a task list handed to the engine
MaxEdges == 3        \* dependency entries in such a list
MaxGuardTasks == 4   \* tasks in a task list handed to the cycle check
MaxGuardEdges == 4   \* dependency entries in such a list
MaxTodos == 3        \* todos a session of Home has to do with
MaxCreated == 2      \* the last id a session of Home creates
MaxStoreTodos == 3   \* todos in a store handed to a dependency update
NowDay == 2          \* the calendar day (since the epoch, UTC) of the first clock reading
MaxDueDay == 4       \* the latest due day a task is given
MaxPending == 2      \* requests of Home on their way at a time
MaxRuns == 2         \* runs of setTodos in a session
MaxTicked == 1       \* boxes a click may leave ticked in a form

----------------------------------------------------------------------------
(* Dates *)

MsPerDay == 86400000

MsPerHour == MsPerDay \div 24

Null == <<>>
Date(t) == <<t>>
Time(d) == d[1]

Max(a, b) == IF a > b THEN a ELSE b

\* Math.ceil(a / b) for b > 0
Ceil(a, b) == -((-a) \div b)

\* the offset of local time from UTC at instant t
Offset(tz, t) == IF t < tz.changeAt THEN tz.before ELSE tz.after

\* LocalTime(t) of ECMAScript: the local time value of instant t
LocalTime(tz, t) == t + Offset(tz, t)

\* UTC(t) of ECMAScript: the instant of a local time value.  A local time
\* that occurs twice (the offset went down) is the earlier instant; one
\* that is skipped (the offset went up) is read with the offset before the
\* change.
LocalToUTC(tz, local) ==
    LET uBefore == local - tz.before
        uAfter == local - tz.after
    IN  IF uBefore < tz.changeAt THEN uBefore
        ELSE IF uAfter >= tz.changeAt THEN uAfter
             ELSE uBefore

\* Date.setHours(0, 0, 0, 0): midnight of the local day of t
setMidnight(tz, t) ==
    LET local == LocalTime(tz, t)
    IN  LocalToUTC(tz, local - (local % MsPerDay))

toDate(date) == date

\* setDate(getDate() + days): the same local time of day, days local
\* calendar days later
addDays(tz, date, days) ==
    Date(LocalToUTC(tz, LocalTime(tz, Time(date)) + days * MsPerDay))

\* a duration counted from the clock and the due date as they are, not
\* from their midnights
calculateDurationUntruncated(tz, dueDate, today) ==
    IF dueDate = Null THEN 1
    ELSE Max(1, Ceil(Time(dueDate) - today, MsPerDay))

\* today is what new Date() returns at line 42, read only when there is a
\* due date
calculateDuration(tz, dueDate, today) ==
    IF dueDate = Null THEN 1
    ELSE LET todayMidnight == setMidnight(tz, today)
             due == setMidnight(tz, Time(dueDate))
             diffTime == due - todayMidnight
             diffDays == Ceil(diffTime, MsPerDay)
         IN  Max(1, diffDays)

\* new Date(): the k-th reading of a run; a clock read more often than it
\* lists instants stays at the last of them
ReadClock(clk, k) ==
    clk[IF k < 1 THEN 1 ELSE IF k > Len(clk) THEN Len(clk) ELSE k]

----------------------------------------------------------------------------
(* Sequence helpers *)

Range(s) == {s[i] : i \in DOMAIN s}

\* Array.prototype.filter's idea of membership
Includes(s, x) == \E i \in DOMAIN s : s[i] = x

RECURSIVE SeqFilterIds(_, _)
\* the members of sequence s that lie in set S, in order
SeqFilterIds(s, S) ==
    IF s = <<>> THEN <<>>
    ELSE IF Head(s) \in S THEN <<Head(s)>> \o SeqFilterIds(Tail(s), S)
         ELSE SeqFilterIds(Tail(s), S)

RECURSIVE Dedup(_, _)
\* new Set(array): first occurrences, in insertion order
Dedup(s, seen) ==
    IF s = <<>> THEN <<>>
    ELSE IF Head(s) \in seen THEN Dedup(Tail(s), seen)
         ELSE <<Head(s)>> \o Dedup(Tail(s), seen \cup {Head(s)})

\* the ids of a task list, in list order
IdsOf(list) == [i \in DOMAIN list |-> list[i].id]

\* Map.set(key, value)
MapSet(map, key, value) ==
    [x \in DOMAIN map \cup {key} |-> IF x = key THEN value ELSE map[x]]

----------------------------------------------------------------------------
(* lib/criticalPath.ts: calculateCriticalPath                               *)
(* A task of the input list is [id, dueDate, dependencies, dependents]; of  *)
(* the referenced task objects only the id is read, so both lists hold ids. *)
(* slack is kept as its numerator in milliseconds: the code's value is      *)
(* slack / MsPerDay days, and it is 0 exactly when the numerator is 0.      *)
(* A run is followed through st = [todoMap, visited, log, reads]: reads     *)
(* counts the clock readings made so far, and log is the sequence of what   *)
(* the run has done so far, in execution order: a top-level call of a pass  *)
(* ("forward", "backward"), an assignment of a task's earliest or latest    *)
(* times ("earliest", "latest", with the earliestFinish or latestStart      *)
(* written), the derivation of the project end date ("projectEnd").         *)

Event(op, id, value) == [op |-> op, id |-> id, value |-> value]

\* one more new Date() has been evaluated; its value is
\* ReadClock(clk, st.reads) of the state returned
Tick(st) == [st EXCEPT !.reads = @ + 1]

\* the last task of the list with this id (Map.set overwrites)
LastWithId(list, id) ==
    list[CHOOSE i \in DOMAIN list :
            /\ list[i].id = id
            /\ \A j \in DOMAIN list : list[j].id = id => j <= i]

\* lines 53-67: the record built for one task of the list
InitTodo(todo, tz, today) ==
    [id |-> todo.id,
     dueDate |-> toDate(todo.dueDate),
     dependencies |-> todo.dependencies,
     dependents |-> todo.dependents,
     duration |-> calculateDuration(tz, toDate(todo.dueDate), today),
     earliestStartDate |-> Null,
     earliestFinishDate |-> Null,
     latestStartDate |-> Null,
     latestFinishDate |-> Null,
     criticalPath |-> <<>>,
     isCritical |-> FALSE,
     slack |-> 0]

RECURSIVE InitLoop(_, _, _, _, _)
\* todos.forEach of lines 52-69, from task i on: calculateDuration reads
\* the clock once for every task that has a due date
InitLoop(list, tz, clk, st, i) ==
    IF i > Len(list) THEN st
    ELSE LET todo == list[i]
             st1 == IF toDate(todo.dueDate) # Null THEN Tick(st) ELSE st
         IN  InitLoop(list, tz, clk,
                [st1 EXCEPT !.todoMap =
                    MapSet(@, todo.id, InitTodo(todo, tz, ReadClock(clk, st1.reads)))],
                i + 1)

\* the state of the run after lines 52-69
InitTodoMap(list, tz, clk) ==
    InitLoop(list, tz, clk,
             [todoMap |-> <<>>, visited |-> {}, log |-> <<>>, reads |-> 0], 1)

InitGraph(list) ==
    [id \in Range(IdsOf(list)) |-> Dedup(LastWithId(list, id).dependencies, {})]

\* todos.filter(todo => todo.dependents.length === 0).map(t => t.id)
endNodes(list) ==
    LET keep == {i \in DOMAIN list : Len(list[i].dependents) = 0}
        RECURSIVE Take(_)
        Take(i) == IF i > Len(list) THEN <<>>
                   ELSE IF i \in keep THEN <<list[i].id>> \o Take(i + 1)
                        ELSE Take(i + 1)
    IN  Take(1)

RECURSIVE calculateEarliestTimes(_, _, _, _, _)
RECURSIVE EarliestLoop(_, _, _, _, _, _, _)

\* lines 99-101: compute the dependency's earliest times if absent
EnsureEarliest(graph, tz, clk, st, depId) ==
    IF st.todoMap[depId].earliestFinishDate = Null
    THEN calculateEarliestTimes(graph, tz, clk, st, depId)
    ELSE st

\* lines 103-105: the later of latestFinish and the dependency's finish
LaterFinish(dep, latestFinish) ==
    IF /\ dep.earliestFinishDate # Null
       /\ Time(dep.earliestFinishDate) > latestFinish
    THEN Time(dep.earliestFinishDate)
    ELSE latestFinish

\* the loop over the dependencies (lines 95-106): the state after it and
\* the value of latestFinish
EarliestLoop(graph, tz, clk, st, dependencies, i, latestFinish) ==
    IF i > Len(dependencies) THEN [st |-> st, latestFinish |-> latestFinish]
    ELSE LET depId == dependencies[i] IN
         IF depId \notin DOMAIN st.todoMap
         THEN EarliestLoop(graph, tz, clk, st, dependencies, i + 1, latestFinish)
         ELSE LET st1 == EnsureEarliest(graph, tz, clk, st, depId)
                  dep == st1.todoMap[depId]
              IN  EarliestLoop(graph, tz, clk, st1, dependencies, i + 1,
                               LaterFinish(dep, latestFinish))

\* lines 89-90 and 108-109: the two assignments
SetEarliest(tz, st, todoId, start) ==
    LET finish == addDays(tz, start, st.todoMap[todoId].duration)
    IN  [st EXCEPT
           !.todoMap[todoId].earliestStartDate = start,
           !.todoMap[todoId].earliestFinishDate = finish,
           !.log = Append(@, Event("earliest", todoId, Time(finish)))]

\* a task without dependencies starts at the instant the clock returns
\* when line 89 is reached
calculateEarliestTimes(graph, tz, clk, st, todoId) ==
    IF todoId \in st.visited THEN st
    ELSE LET st1 == [st EXCEPT !.visited = @ \cup {todoId}] IN
         IF todoId \notin DOMAIN st1.todoMap THEN st1
         ELSE LET dependencies == graph[todoId] IN
              IF Len(dependencies) = 0
              THEN LET st2 == Tick(st1)
                   IN  SetEarliest(tz, st2, todoId, Date(ReadClock(clk, st2.reads)))
              ELSE LET r == EarliestLoop(graph, tz, clk, st1, dependencies, 1, 0)
                   IN  SetEarliest(tz, r.st, todoId, Date(r.latestFinish))

\* the state in which a top-level call of a pass starts: a fresh visited
\* set (the default argument)
TopLevel(st, op, todoId) ==
    [st EXCEPT !.visited = {}, !.log = Append(@, Event(op, todoId, 0))]

RECURSIVE ForwardPassFromSources(_, _, _, _, _, _)
\* a forward pass started from the tasks without dependencies only
ForwardPassFromSources(list, graph, tz, clk, st, i) ==
    IF i > Len(list) THEN st
    ELSE ForwardPassFromSources(list, graph, tz, clk,
            IF Len(list[i].dependencies) = 0
            THEN calculateEarliestTimes(graph, tz, clk,
                    TopLevel(st, "forward", list[i].id), list[i].id)
            ELSE st,
            i + 1)

RECURSIVE ForwardPass(_, _, _, _, _, _)
\* todos.forEach(todo => calculateEarliestTimes(todo.id))
ForwardPass(list, graph, tz, clk, st, i) ==
    IF i > Len(list) THEN st
    ELSE ForwardPass(list, graph, tz, clk,
            calculateEarliestTimes(graph, tz, clk,
                TopLevel(st, "forward", list[i].id), list[i].id),
            i + 1)

RECURSIVE ProjectEndLoop(_, _, _, _)
ProjectEndLoop(list, todoMap, i, projectEndDate) ==
    IF i > Len(list) THEN projectEndDate
    ELSE LET todoData == todoMap[list[i].id] IN
         ProjectEndLoop(list, todoMap, i + 1,
            IF /\ todoData.earliestFinishDate # Null
               /\ Time(todoData.earliestFinishDate) > projectEndDate
            THEN Time(todoData.earliestFinishDate)
            ELSE projectEndDate)

\* lines 197-203; today is what new Date() returns at line 197
ProjectEndDate(list, todoMap, today) == ProjectEndLoop(list, todoMap, 1, today)

\* todos.filter(t => t.dependencies.some(d => d.id === todoId)).map(t => t.id)
DependentsOf(list, todoId) ==
    LET RECURSIVE Take(_)
        Take(i) == IF i > Len(list) THEN <<>>
                   ELSE IF Includes(list[i].dependencies, todoId)
                        THEN <<list[i].id>> \o Take(i + 1)
                        ELSE Take(i + 1)
    IN  Take(1)

\* slack without the clamp at 0
WithSlackUnclamped(todo) ==
    IF todo.earliestStartDate # Null /\ todo.latestStartDate # Null
    THEN [todo EXCEPT !.slack =
            Time(todo.latestStartDate) - Time(todo.earliestStartDate)]
    ELSE todo

\* lines 149-152, on one record
WithSlack(todo) ==
    IF todo.earliestStartDate # Null /\ todo.latestStartDate # Null
    THEN LET slackMs == Time(todo.latestStartDate) - Time(todo.earliestStartDate)
         IN  [todo EXCEPT !.slack = Max(0, slackMs)]
    ELSE todo

RECURSIVE calculateLatestTimes(_, _, _, _, _)
RECURSIVE LatestLoop(_, _, _, _, _, _, _)

\* lines 135-137: compute the dependent's latest times if absent
EnsureLatest(list, tz, projectEndDate, st, depId) ==
    IF st.todoMap[depId].latestStartDate = Null
    THEN calculateLatestTimes(list, tz, projectEndDate, st, depId)
    ELSE st

\* a backward pass in which the last dependent's start wins
EarlierStartLastWins(dep, earliestDependentStart) ==
    IF dep.latestStartDate # Null
    THEN Time(dep.latestStartDate)
    ELSE earliestDependentStart

\* lines 139-141: the earlier of earliestDependentStart and the
\* dependent's latest start
EarlierStart(dep, earliestDependentStart) ==
    IF /\ dep.latestStartDate # Null
       /\ Time(dep.latestStartDate) < earliestDependentStart
    THEN Time(dep.latestStartDate)
    ELSE earliestDependentStart

\* the loop over the dependents (lines 131-142)
LatestLoop(list, tz, projectEndDate, st, dependents, i, earliestDependentStart) ==
    IF i > Len(dependents)
    THEN [st |-> st, earliestDependentStart |-> earliestDependentStart]
    ELSE LET depId == dependents[i] IN
         IF depId \notin DOMAIN st.todoMap
         THEN LatestLoop(list, tz, projectEndDate, st, dependents, i + 1,
                         earliestDependentStart)
         ELSE LET st1 == EnsureLatest(list, tz, projectEndDate, st, depId)
                  dep == st1.todoMap[depId]
              IN  LatestLoop(list, tz, projectEndDate, st1, dependents, i + 1,
                             EarlierStart(dep, earliestDependentStart))

\* a backward pass that, instead of leaving a negative slack to the clamp,
\* moves the earliest start back to the latest start
SetLatestMovingStart(tz, st, todoId, finish) ==
    LET todo == st.todoMap[todoId]
        start == addDays(tz, finish, -todo.duration)
        moved == IF /\ todo.earliestStartDate # Null
                    /\ Time(start) < Time(todo.earliestStartDate)
                 THEN start ELSE todo.earliestStartDate
    IN  [st EXCEPT
           !.todoMap[todoId] =
              WithSlack([todo EXCEPT !.latestFinishDate = finish,
                                     !.latestStartDate = start,
                                     !.earliestStartDate = moved]),
           !.log = Append(@, Event("latest", todoId, Time(start)))]

\* lines 125-126 and 144-145, then the slack (lines 149-152)
SetLatest(tz, st, todoId, finish) ==
    LET todo == st.todoMap[todoId]
        start == addDays(tz, finish, -todo.duration)
    IN  [st EXCEPT
           !.todoMap[todoId] =
              WithSlack([todo EXCEPT !.latestFinishDate = finish,
                                     !.latestStartDate = start]),
           !.log = Append(@, Event("latest", todoId, Time(start)))]

calculateLatestTimes(list, tz, projectEndDate, st, todoId) ==
    IF todoId \in st.visited THEN st
    ELSE LET st1 == [st EXCEPT !.visited = @ \cup {todoId}] IN
         IF todoId \notin DOMAIN st1.todoMap THEN st1
         ELSE LET dependents == DependentsOf(list, todoId) IN
              IF Len(dependents) = 0
              THEN LET todo == st1.todoMap[todoId]
                   IN  SetLatest(tz, st1, todoId,
                          IF todo.dueDate # Null THEN todo.dueDate
                          ELSE Date(projectEndDate))
              ELSE LET r == LatestLoop(list, tz, projectEndDate, st1, dependents,
                                       1, projectEndDate)
                   IN  SetLatest(tz, r.st, todoId, Date(r.earliestDependentStart))

RECURSIVE BackwardPass(_, _, _, _, _)
\* todos.forEach(todo => calculateLatestTimes(todo.id, projectEndDate))
BackwardPass(list, tz, projectEndDate, st, i) ==
    IF i > Len(list) THEN st
    ELSE BackwardPass(list, tz, projectEndDate,
            calculateLatestTimes(list, tz, projectEndDate,
                TopLevel(st, "backward", list[i].id), list[i].id),
            i + 1)

\* a trace that follows the first dependency, whatever its slack
criticalDepAny(todoMap, dependencies) ==
    LET hits == {i \in DOMAIN dependencies : dependencies[i] \in DOMAIN todoMap}
    IN  IF hits = {} THEN 0
        ELSE dependencies[CHOOSE i \in hits : \A j \in hits : i <= j]

\* node.dependencies.find(dep => todoMap.get(dep.id)?.slack === 0): the id
\* found, or 0 when there is none
criticalDep(todoMap, dependencies) ==
    LET hits == {i \in DOMAIN dependencies :
                    /\ dependencies[i] \in DOMAIN todoMap
                    /\ todoMap[dependencies[i]].slack = 0}
    IN  IF hits = {} THEN 0
        ELSE dependencies[CHOOSE i \in hits : \A j \in hits : i <= j]

RECURSIVE tracePath(_, _, _)
\* [path, overflow]: tracePath has no visited set, so a node met again on
\* the trace recurses without end and the engine's stack overflows
\* (RangeError)
tracePath(todoMap, nodeId, path) ==
    IF nodeId \notin DOMAIN todoMap THEN [path |-> path, overflow |-> FALSE]
    ELSE IF Includes(path, nodeId) THEN [path |-> path, overflow |-> TRUE]
    ELSE LET path1 == <<nodeId>> \o path
             next == criticalDep(todoMap, todoMap[nodeId].dependencies)
         IN  IF next = 0 THEN [path |-> path1, overflow |-> FALSE]
             ELSE tracePath(todoMap, next, path1)

findCriticalPath(list, todoMap) ==
    LET ends == endNodes(list)
        criticalEndNodes ==
            SeqFilterIds(ends, {id \in DOMAIN todoMap : todoMap[id].slack = 0})
    IN  IF Len(criticalEndNodes) = 0 THEN [path |-> <<>>, overflow |-> FALSE]
        ELSE tracePath(todoMap, criticalEndNodes[1], <<>>)

\* a marking of every task without slack
MarkCriticalBySlack(todoMap, criticalPath) ==
    [id \in DOMAIN todoMap |->
        IF todoMap[id].slack = 0
        THEN [todoMap[id] EXCEPT !.isCritical = TRUE, !.criticalPath = criticalPath]
        ELSE todoMap[id]]

\* lines 214-220
MarkCritical(todoMap, criticalPath) ==
    [id \in DOMAIN todoMap |->
        IF Includes(criticalPath, id)
        THEN [todoMap[id] EXCEPT !.isCritical = TRUE, !.criticalPath = criticalPath]
        ELSE todoMap[id]]

\* What a run leaves behind: the map after the initialization (lines
\* 52-69), after the forward pass (192-194) and after the backward pass
\* (206-208), the project end date, what findCriticalPath (211) returned,
\* the log of the passes and the number of clock readings of the run
PhaseRecord(list, s0, s1, projectEndDate, s3) ==
    [init |-> s0.todoMap, forward |-> s1.todoMap, backward |-> s3.todoMap,
     projectEndDate |-> projectEndDate,
     found |-> findCriticalPath(list, s3.todoMap), log |-> s3.log,
     reads |-> s3.reads]

\* lines 206-211: the backward pass towards projectEndDate, then the trace
FromProjectEnd(list, tz, s0, s1, projectEndDate) ==
    PhaseRecord(list, s0, s1, projectEndDate,
        BackwardPass(list, tz, projectEndDate,
            [s1 EXCEPT !.log = Append(@, Event("projectEnd", 0, projectEndDate))],
            1))

\* lines 197-203: s1 is the run after the forward pass and the clock
\* reading of line 197
FromForward(list, tz, clk, s0, s1) ==
    FromProjectEnd(list, tz, s0, s1,
        ProjectEndDate(list, s1.todoMap, ReadClock(clk, s1.reads)))

\* lines 192-197: s0 is the run after the initialization
FromInit(list, tz, clk, s0) ==
    FromForward(list, tz, clk, s0,
        Tick(ForwardPass(list, InitGraph(list), tz, clk, s0, 1)))

\* lines 52-211
Phases(list, tz, clk) ==
    FromInit(list, tz, clk, InitTodoMap(list, tz, clk))

\* lines 212-224: the marking of the path, or the catch block.  Returns
\* [todoMap, projectEndDate, criticalPath, error, log, reads, phases]:
\* todoMap is the returned map; criticalPath is the path findCriticalPath
\* returned (empty when it threw), projectEndDate the date handed to the
\* backward pass; error tells that the catch block ran; log is what the
\* two passes did, reads how often the clock was read, and phases holds
\* the map as it was after the initialization, after the forward pass and
\* after the backward pass.
Returned(p) ==
    [todoMap |-> IF p.found.overflow THEN p.backward
                 ELSE MarkCritical(p.backward, p.found.path),
     projectEndDate |-> p.projectEndDate,
     criticalPath |-> IF p.found.overflow THEN <<>> ELSE p.found.path,
     error |-> p.found.overflow,
     log |-> p.log,
     reads |-> p.reads,
     phases |-> [init |-> p.init, forward |-> p.forward, backward |-> p.backward]]

\* The whole call
calculateCriticalPath(list, tz, clk) ==
    Returned(Phases(list, tz, clk))

----------------------------------------------------------------------------
(* Task lists handed to the engine *)

RECURSIVE Ascending(_)
\* the members of a set of numbers, smallest first
Ascending(S) ==
    IF S = {} THEN <<>>
    ELSE LET m == CHOOSE x \in S : \A y \in S : x <= y
         IN  <<m>> \o Ascending(S \ {m})

Reverse(s) == [i \in DOMAIN s |-> s[Len(s) + 1 - i]]

\* the last millisecond of a calendar day: `${dueDate}T23:59:59.999Z`
EndOfDay(day) == day * MsPerDay + (MsPerDay - 1)


\* a clock that returns the same instant at every reading of a run
Steady(t) == <<t>>

\* the clock readings a list of MaxTasks tasks can cause: one per due date,
\* two per task without dependencies, one for the project end date
ClockLen == 3 * MaxTasks + 1

\* a clock that has advanced by a millisecond at every reading
Ticking(t) == [k \in 1..ClockLen |-> t + (k - 1)]

\* a run all of whose readings return the first millisecond of day NowDay
\* (UTC), and a run that starts in the last millisecond of that day, so
\* that midnight (UTC) passes between its first two readings
Clocks == {Steady(NowDay * MsPerDay), Ticking(EndOfDay(NowDay))}

\* a zone without daylight saving
FixedZone(offset) == [before |-> offset, changeAt |-> 0, after |-> offset]

\* the day (UTC) of the daylight saving change of the zones that have one
ChangeDay == NowDay + 1

\* clocks go forward at 02:00 local time, which is 00:00 UTC: the local
\* times from 02:00 to 03:00 of that day do not exist
SpringForward ==
    [before |-> 2 * MsPerHour, changeAt |-> ChangeDay * MsPerDay,
     after |-> 3 * MsPerHour]

\* clocks go back at 02:00 local time, which is 06:00 UTC: that local day
\* has 25 hours
FallBack ==
    [before |-> -4 * MsPerHour, changeAt |-> ChangeDay * MsPerDay + 6 * MsPerHour,
     after |-> -5 * MsPerHour]

\* UTC, a zone east and a zone west of it, and the two zones with a change
Zones ==
    {FixedZone(0), FixedZone(9 * MsPerHour), FixedZone(-5 * MsPerHour),
     SpringForward, FallBack}

\* due dates: none, the day before the clock's day, the day after it
DueChoices == {Null, Date(EndOfDay(NowDay - 1)), Date(EndOfDay(NowDay + 1))}

\* dependency relations over tasks 1..n with at most k entries, no task
\* depending on itself
EdgeSets(n, k) ==
    {E \in SUBSET {e \in (1..n) \X (1..n) : e[1] # e[2]} : Cardinality(E) <= k}

\* dependency relations over tasks 1..n with at most k entries, at least
\* one of them naming n + 1, which is no task of the list
DanglingEdgeSets(n, k) ==
    {E \in SUBSET {e \in (1..n) \X (1..(n + 1)) : e[1] # e[2]} :
        /\ Cardinality(E) <= k
        /\ \E e \in E : e[2] = n + 1}

\* The list of n tasks with ids 1..n in list order, task i depending on j
\* for <<i, j>> in E, dependency lists ascending or descending, dependents
\* the inverse of the dependencies
TaskList(n, E, due, asc) ==
    [i \in 1..n |->
        [id |-> i,
         dueDate |-> due[i],
         dependencies |->
            LET d == Ascending({e[2] : e \in {x \in E : x[1] = i}})
            IN  IF asc THEN d ELSE Reverse(d),
         dependents |-> Ascending({j \in 1..n : <<j, i>> \in E})]]

NoResult ==
    [todoMap |-> <<>>, projectEndDate |-> 0, criticalPath |-> <<>>,
     error |-> FALSE, log |-> <<>>, reads |-> 0,
     phases |-> [init |-> <<>>, forward |-> <<>>, backward |-> <<>>]]

----------------------------------------------------------------------------
(* The engine as a function of its input: SpecEngine *)

InitEngine ==
    /\ pc = "input"
    /\ store = <<>>
    /\ nextId = 1
    /\ selectedDependencies = {}
    /\ editingTodoId = 0
    /\ editDependencies = {}
    /\ zone \in Zones
    /\ clock \in Clocks
    /\ \E n \in 0..MaxTasks :
         \E E \in EdgeSets(n, MaxEdges), due \in [1..n -> DueChoices], asc \in BOOLEAN :
            todos = TaskList(n, E, due, asc)
    /\ todosWithCriticalPath = NoResult
    /\ levels = <<>>
    /\ pending = EmptyBag
    /\ runs = 0
    /\ showGraph = FALSE

\* one call of calculateCriticalPath(todos)
RunEngine ==
    /\ pc = "input"
    /\ pc' = "done"
    /\ todosWithCriticalPath' = calculateCriticalPath(todos, zone, clock)
    /\ UNCHANGED <<store, nextId, todos, selectedDependencies, editingTodoId,
                   editDependencies, zone, clock, levels, pending, runs,
                   showGraph>>

SpecEngine == InitEngine /\ [][RunEngine]_vars

\* the engine on lists with dependency ids that name no task of the list
InitDangling ==
    /\ pc = "input"
    /\ store = <<>>
    /\ nextId = 1
    /\ selectedDependencies = {}
    /\ editingTodoId = 0
    /\ editDependencies = {}
    /\ zone \in Zones
    /\ clock \in Clocks
    /\ \E n \in 1..MaxTasks :
         \E E \in DanglingEdgeSets(n, MaxEdges), due \in [1..n -> DueChoices],
            asc \in BOOLEAN :
            todos = TaskList(n, E, due, asc)
    /\ todosWithCriticalPath = NoResult
    /\ levels = <<>>
    /\ pending = EmptyBag
    /\ runs = 0
    /\ showGraph = FALSE

SpecDangling == InitDangling /\ [][RunEngine]_vars

\* a task list whose dependents fields are those of relation D: task i
\* lists j as a dependent for <<j, i>> in D
WithDependents(list, D) ==
    [i \in DOMAIN list |->
        [list[i] EXCEPT !.dependents = Ascending({e[1] : e \in {x \in D : x[2] = i}})]]

\* the engine on lists whose dependents fields are any relation, not
\* necessarily the inverse of the dependencies
InitDependents ==
    /\ pc = "input"
    /\ store = <<>>
    /\ nextId = 1
    /\ selectedDependencies = {}
    /\ editingTodoId = 0
    /\ editDependencies = {}
    /\ zone \in Zones
    /\ clock \in Clocks
    /\ \E n \in 1..MaxTasks :
         \E E \in EdgeSets(n, MaxEdges), D \in DanglingEdgeSets(n, MaxEdges) \cup EdgeSets(n, MaxEdges),
            asc \in BOOLEAN :
            todos = WithDependents(TaskList(n, E, [i \in 1..n |-> Null], asc), D)
    /\ todosWithCriticalPath = NoResult
    /\ levels = <<>>
    /\ pending = EmptyBag
    /\ runs = 0
    /\ showGraph = FALSE

SpecDependents == InitDependents /\ [][RunEngine]_vars

\* due dates on every day from the epoch to MaxDueDay, at the first and at
\* the last millisecond of the day
DueDateRange ==
    {Null} \cup {Date(d * MsPerDay + o) : d \in 0..MaxDueDay, o \in {0, MsPerDay - 1}}

\* the engine on lists of one or two independent tasks with any due dates
InitDuration ==
    /\ pc = "input"
    /\ store = <<>>
    /\ nextId = 1
    /\ selectedDependencies = {}
    /\ editingTodoId = 0
    /\ editDependencies = {}
    /\ zone \in Zones
    /\ clock \in Clocks
    /\ \E n \in 1..2 : \E due \in [1..n -> DueDateRange] :
            todos = TaskList(n, {}, due, TRUE)
    /\ todosWithCriticalPath = NoResult
    /\ levels = <<>>
    /\ pending = EmptyBag
    /\ runs = 0
    /\ showGraph = FALSE

SpecDuration == InitDuration /\ [][RunEngine]_vars

----------------------------------------------------------------------------
(* The task store: prisma.todo behind app/api/todos                         *)
(* store[id] = [dueDate, dependencies]; the dependents relation is the      *)
(* inverse of dependencies (one relation table, "TodoDependencies").        *)
(* Related records are returned in ascending id order.  A route returns     *)
(* [status, store]: the status of its answer and the table it leaves.  A    *)
(* request body is a record of the fields it was sent with; title,          *)
(* completed and imageUrl are not followed.                                 *)

StoreIds == DOMAIN store

DependentsIn(st, id) == {t \in DOMAIN st : id \in st[t].dependencies}

\* GET /api/todos: findMany, orderBy createdAt desc, include both relations
GET(st) ==
    LET ids == Reverse(Ascending(DOMAIN st))
    IN  [i \in DOMAIN ids |->
            [id |-> ids[i],
             dueDate |-> st[ids[i]].dueDate,
             dependencies |-> Ascending(st[ids[i]].dependencies),
             dependents |-> Ascending(DependentsIn(st, ids[i]))]]

\* dueDate ? new Date(`${dueDate}T23:59:59.999Z`) : null, the date input
\* given as its day, 0 for the empty input
DueDateOf(dueDay) == IF dueDay = 0 THEN Null ELSE Date(EndOfDay(dueDay))

\* POST /api/todos with a title: create with connect, dependencyIds = []
\* and no dueDate when the body holds none; a connect to a missing record
\* fails the create (500)
POST(st, id, body) ==
    LET dueDay == IF "dueDate" \in DOMAIN body THEN body.dueDate ELSE 0
        dependencyIds ==
            IF "dependencyIds" \in DOMAIN body THEN body.dependencyIds ELSE {}
    IN  IF dependencyIds \subseteq DOMAIN st
        THEN [status |-> 201,
              store |-> [t \in DOMAIN st \cup {id} |->
                            IF t = id
                            THEN [dueDate |-> DueDateOf(dueDay),
                                  dependencies |-> dependencyIds]
                            ELSE st[t]]]
        ELSE [status |-> 500, store |-> st]

\* prisma.todo.update({where: {id}, data}) on the fields followed.  data
\* holds dueDate, or set and connect for the dependencies relation, or
\* both: set replaces the links of the record by those given, connect adds
\* links (clear and re-link is set: [] with connect).  The update is one
\* write: without the record, or without a record to connect, it fails
\* and leaves the table as it was.
TodoUpdate(st, id, data) ==
    IF id \notin DOMAIN st
       \/ ("connect" \in DOMAIN data /\ ~(data.connect \subseteq DOMAIN st))
    THEN [ok |-> FALSE, store |-> st]
    ELSE [ok |-> TRUE,
          store |-> [st EXCEPT
              ![id].dueDate =
                  IF "dueDate" \in DOMAIN data THEN data.dueDate ELSE @,
              ![id].dependencies =
                  (IF "set" \in DOMAIN data THEN data.set ELSE @)
                  \cup (IF "connect" \in DOMAIN data THEN data.connect ELSE {})]]

\* updateData.dueDate of the PUT route (line 23)
UpdateDueDate(body) ==
    IF "dueDate" \in DOMAIN body
    THEN [x \in {"dueDate"} |-> DueDateOf(body.dueDate)]
    ELSE <<>>

\* a route that connects the ids sent without clearing first
PUTMerge(st, id, body) ==
    LET data == UpdateDueDate(body)
                @@ (IF "dependencyIds" \in DOMAIN body
                    THEN [x \in {"connect"} |-> body.dependencyIds]
                    ELSE <<>>)
        r == TodoUpdate(st, id, data)
    IN  [status |-> IF r.ok THEN 200 ELSE 500, store |-> r.store]

\* PUT /api/todos/[id]: updateData takes the fields the body holds,
\* dependencyIds as set: [] with connect; an update that fails is
\* answered 500
PUT(st, id, body) ==
    LET data == UpdateDueDate(body)
                @@ (IF "dependencyIds" \in DOMAIN body
                    THEN [x \in {"set", "connect"} |->
                            IF x = "set" THEN {} ELSE body.dependencyIds]
                    ELSE <<>>)
        r == TodoUpdate(st, id, data)
    IN  [status |-> IF r.ok THEN 200 ELSE 500, store |-> r.store]

\* DELETE /api/todos/[id]: the record goes, and with it its rows of the
\* relation table; a missing record fails the delete (500)
DELETE(st, id) ==
    IF id \in DOMAIN st
    THEN [status |-> 200,
          store |-> [t \in DOMAIN st \ {id} |->
                        [st[t] EXCEPT !.dependencies = @ \ {id}]]]
    ELSE [status |-> 500, store |-> st]

----------------------------------------------------------------------------
(* app/page.tsx: the candidate list and its cycle check *)

\* todos.find(t => t.id === todoId): its index, 0 when there is none
FindIndex(list, todoId) ==
    LET hits == {i \in DOMAIN list : list[i].id = todoId}
    IN  IF hits = {} THEN 0 ELSE CHOOSE i \in hits : \A j \in hits : i <= j

RECURSIVE wouldCreateCycle(_, _, _, _)
RECURSIVE CycleSome(_, _, _, _, _)

\* a cycle check that looks at direct dependencies only
wouldCreateCycleDirect(list, todoId, targetId, stack) ==
    LET k == CHOOSE i \in DOMAIN list \cup {0} :
                 /\ i # 0 => list[i].id = todoId
                 /\ i = 0 => \A j \in DOMAIN list : list[j].id # todoId
    IN  [value |-> k # 0 /\ \E j \in DOMAIN list[k].dependencies :
                                 list[k].dependencies[j] = targetId,
         overflow |-> FALSE]

\* todo.dependencies.some(d => wouldCreateCycle(d.id, targetId))
CycleSome(list, dependencies, i, targetId, stack) ==
    IF i > Len(dependencies) THEN [value |-> FALSE, overflow |-> FALSE]
    ELSE LET r == wouldCreateCycle(list, dependencies[i], targetId, stack)
         IN  IF r.overflow \/ r.value THEN r
             ELSE CycleSome(list, dependencies, i + 1, targetId, stack)

\* [value, overflow].  stack holds the todoIds of the calls in progress: a
\* call that meets its own todoId again repeats itself without end, and
\* the recursion overflows the stack (RangeError).
wouldCreateCycle(list, todoId, targetId, stack) ==
    IF todoId \in stack THEN [value |-> FALSE, overflow |-> TRUE]
    ELSE LET k == FindIndex(list, todoId) IN
         IF k = 0 THEN [value |-> FALSE, overflow |-> FALSE]
         ELSE IF Includes(list[k].dependencies, targetId)
              THEN [value |-> TRUE, overflow |-> FALSE]
              ELSE CycleSome(list, list[k].dependencies, 1, targetId,
                             stack \cup {todoId})

\* the filter callback of getAvailableDependencies on one todo:
\* [keep, overflow]
AvailableFilter(list, excludeId, todo) ==
    IF excludeId # 0 /\ todo.id = excludeId
    THEN [keep |-> FALSE, overflow |-> FALSE]
    ELSE IF excludeId # 0
         THEN LET r == wouldCreateCycle(list, excludeId, todo.id, {})
              IN  IF r.overflow THEN [keep |-> FALSE, overflow |-> TRUE]
                  ELSE IF r.value THEN [keep |-> TRUE, overflow |-> FALSE]
                  ELSE [keep |-> TRUE, overflow |-> FALSE]
         ELSE [keep |-> TRUE, overflow |-> FALSE]

\* getAvailableDependencies(excludeId), excludeId = 0 for no argument:
\* [ids, overflow], ids the ids of the todos kept, in list order
getAvailableDependencies(list, excludeId) ==
    LET f == [i \in DOMAIN list |-> AvailableFilter(list, excludeId, list[i])]
    IN  IF \E i \in DOMAIN list : f[i].overflow
        THEN [ids |-> <<>>, overflow |-> TRUE]
        ELSE [ids |-> SeqFilterIds(IdsOf(list),
                         {list[i].id : i \in {j \in DOMAIN list : f[j].keep}}),
              overflow |-> FALSE]

\* Rendering Home with list and the edit form of todo editing open (0 for
\* none) throws when the todo is listed and its candidate list cannot be
\* computed
RenderThrowsOn(list, editing) ==
    /\ editing # 0
    /\ FindIndex(list, editing) # 0
    /\ getAvailableDependencies(list, editing).overflow

RenderThrows == RenderThrowsOn(todos, editingTodoId)

----------------------------------------------------------------------------
(* app/page.tsx: DependencyGraph, the levels of the layout *)

\* levels.set(todoId, level)
LevelsSet(lv, todoId, level) ==
    [x \in DOMAIN lv \cup {todoId} |-> IF x = todoId THEN level ELSE lv[x]]

RECURSIVE calculateLevel(_, _, _)
RECURSIVE LevelMap(_, _, _, _, _)

\* todo.dependencies.map(d => calculateLevel(d.id, visited)) and the
\* Math.max of it (line 397), for a non-empty list
LevelMap(list, st, dependencies, i, maxDepLevel) ==
    IF i > Len(dependencies) THEN [st |-> st, level |-> maxDepLevel]
    ELSE LET r == calculateLevel(list, st, dependencies[i])
         IN  LevelMap(list, r.st, dependencies, i + 1,
                      IF i = 1 THEN r.level ELSE Max(maxDepLevel, r.level))

\* st = [levels, visited]; returns the state after the call and its value
calculateLevel(list, st, todoId) ==
    IF todoId \in st.visited THEN [st |-> st, level |-> 0]
    ELSE LET st1 == [st EXCEPT !.visited = @ \cup {todoId}]
             k == FindIndex(list, todoId)
         IN  IF k = 0 THEN [st |-> st1, level |-> 0]
             ELSE IF Len(list[k].dependencies) = 0
                  THEN [st |-> [st1 EXCEPT !.levels = LevelsSet(@, todoId, 0)],
                        level |-> 0]
                  ELSE LET r == LevelMap(list, st1, list[k].dependencies, 1, 0)
                           level == r.level + 1
                       IN  [st |-> [r.st EXCEPT !.levels = LevelsSet(@, todoId, level)],
                            level |-> level]

RECURSIVE LevelsLoop(_, _, _)
\* todos.forEach(todo => calculateLevel(todo.id)), a fresh visited set for
\* every top-level call
LevelsLoop(list, lv, i) ==
    IF i > Len(list) THEN lv
    ELSE LevelsLoop(list,
            calculateLevel(list, [levels |-> lv, visited |-> {}], list[i].id).st.levels,
            i + 1)

----------------------------------------------------------------------------
(* app/page.tsx: the handlers of Home                                       *)
(* An async handler runs up to its first await, where it sends a request,   *)
(* and the rest of it runs when the answer has reached the page; in         *)
(* between the page is rendered and takes events.  pending is the bag of    *)
(* the requests and answers on their way.  A request to /api/todos is       *)
(* "sent" until its route has handled it, and then "answered", with the     *)
(* status and, for the list, the body of the answer, until the handler      *)
(* that awaits it runs on; routes and answers come in any order.  The       *)
(* image lookup and the updates of imageUrl and of completed change         *)
(* nothing that is followed: they are on their way until their handler      *)
(* runs on.  A handler runs on when Home has been unmounted by a rendering  *)
(* that threw, and its state updates are then dropped.                      *)

Request(kind, id, body) ==
    [kind |-> kind, id |-> id, body |-> body, phase |-> "sent",
     status |-> 0, data |-> <<>>]

\* the answer to a request of a kind; data is the list of GET /api/todos
Answer(kind, status, data) ==
    [kind |-> kind, id |-> 0, body |-> <<>>, phase |-> "answered",
     status |-> status, data |-> data]

\* fetch("/api/todos") of fetchTodos (line 31)
FetchTodos == Request("GET /api/todos", 0, <<>>)

\* fetch("/api/todos") of handleAddTodo (line 46)
CreateTodo(dueDay, dependencyIds) ==
    Request("POST /api/todos", 0,
            [dueDate |-> dueDay, dependencyIds |-> dependencyIds])

\* the image lookup of fetchImageForTodo (line 67)
ImageLookup == Request("GET /api/pexels", 0, <<>>)

\* the update of imageUrl of fetchImageForTodo (line 71)
SaveImage == Request("PUT imageUrl", 0, <<>>)

\* fetch of handleDeleteTodo (line 85)
DeleteTodo(id) == Request("DELETE /api/todos/[id]", id, <<>>)

\* the update of completed of handleToggleComplete (line 96)
SaveCompleted == Request("PUT completed", 0, <<>>)

\* the update of the dependencies of handleUpdateDependencies (line 109)
SaveDependencies(id, dependencyIds) ==
    Request("PUT /api/todos/[id]", id, [dependencyIds |-> dependencyIds])

Sent(r) == pending (+) SetToBag({r})

Removed(r) == pending (-) SetToBag({r})

Replaced(r, q) == (pending (-) SetToBag({r})) (+) SetToBag({q})

\* the number of POST requests the route has not handled yet
Creating ==
    BagCardinality([r \in {q \in BagToSet(pending) :
                             q.kind = "POST /api/todos" /\ q.phase = "sent"}
                      |-> CopiesIn(r, pending)])

\* Home is mounted and rendered
Rendered == pc = "app" /\ ~RenderThrows

\* a click sends a request while one more fits the bound on requests on
\* their way and the session has a run of setTodos left
CanSend == BagCardinality(pending) < MaxPending /\ runs < MaxRuns

\* the zones of a session of Home
SessionZones == {FixedZone(0), SpringForward}

\* the time from the last clock reading of a scheduling run to the first
\* of the next one
SessionGaps == {MsPerDay}

\* the instant of the last clock reading of the last scheduling run, the
\* one of line 197
LastReading == ReadClock(clock, todosWithCriticalPath.reads)

\* what DependencyGraph holds when Home shows list with the edit form of
\* todo editing open: nothing unless the graph is shown and Home renders
Drawn(list, shown, editing) ==
    IF shown /\ ~RenderThrowsOn(list, editing)
    THEN LevelsLoop(list, <<>>, 1)
    ELSE <<>>

\* setTodos(data) of fetchTodos (line 33), and the renderings that follow
\* it: the useMemo of lines 39-41 computes the schedule from the list, the
\* zone and its own clock readings, which begin gap after the last reading
\* of the run before, and DependencyGraph, if shown, its levels
SetTodos(data, gap) ==
    /\ todos' = data
    /\ \E readings \in {Ticking(LastReading + gap)} :
          /\ clock' = readings
          /\ todosWithCriticalPath' = calculateCriticalPath(data, zone, readings)
    /\ levels' = Drawn(data, showGraph, editingTodoId)

\* the Show / Hide Dependency Graph button and the overlay (lines 157-182)
setShowGraph ==
    /\ Rendered
    /\ showGraph' = ~showGraph
    /\ levels' = Drawn(todos, ~showGraph, editingTodoId)
    /\ UNCHANGED <<store, nextId, todos, selectedDependencies, editingTodoId,
                   editDependencies, zone, clock, todosWithCriticalPath, pc,
                   pending, runs>>

\* a checkbox of the create form
ToggleSelectedDependency(id) ==
    /\ Rendered
    /\ Includes(getAvailableDependencies(todos, 0).ids, id)
    /\ id \in selectedDependencies \/ Cardinality(selectedDependencies) < MaxTicked
    /\ selectedDependencies' =
          IF id \in selectedDependencies THEN selectedDependencies \ {id}
          ELSE selectedDependencies \cup {id}
    /\ UNCHANGED <<store, nextId, todos, editingTodoId, editDependencies, zone,
                   clock, todosWithCriticalPath, pc, levels, pending, runs,
                   showGraph>>

\* handleAddTodo with a non-empty title, up to the await of line 46: the
\* POST carries the date input and the ticks of this rendering.  dueDay = 0
\* stands for the empty date input.
handleAddTodo(dueDay) ==
    /\ Rendered
    /\ CanSend
    /\ nextId + Creating <= MaxCreated
    /\ pending' = Sent(CreateTodo(dueDay, selectedDependencies))
    /\ UNCHANGED <<store, nextId, todos, selectedDependencies, editingTodoId,
                   editDependencies, zone, clock, todosWithCriticalPath, pc,
                   levels, runs, showGraph>>

\* the route handles a POST /api/todos
POSTRoute(dueDay, dependencyIds) ==
    /\ pc = "app"
    /\ BagIn(CreateTodo(dueDay, dependencyIds), pending)
    /\ \E a \in {POST(store, nextId, CreateTodo(dueDay, dependencyIds).body)} :
          /\ store' = a.store
          /\ nextId' = IF a.status = 201 THEN nextId + 1 ELSE nextId
          /\ pending' = Replaced(CreateTodo(dueDay, dependencyIds),
                                 Answer("POST /api/todos", a.status, <<>>))
    /\ UNCHANGED <<todos, selectedDependencies, editingTodoId, editDependencies,
                   zone, clock, todosWithCriticalPath, pc, levels, runs,
                   showGraph>>

\* handleAddTodo from line 55 on, whatever the status of the answer: the
\* form is cleared and fetchImageForTodo sends the image lookup (line 67)
handleAddTodoAnswered(status) ==
    /\ pc = "app"
    /\ BagIn(Answer("POST /api/todos", status, <<>>), pending)
    /\ selectedDependencies' = IF RenderThrows THEN selectedDependencies ELSE {}
    /\ pending' = Replaced(Answer("POST /api/todos", status, <<>>), ImageLookup)
    /\ UNCHANGED <<store, nextId, todos, editingTodoId, editDependencies, zone,
                   clock, todosWithCriticalPath, pc, levels, runs, showGraph>>

\* the image lookup is answered, fetchImageForTodo from line 68 on: with a
\* photo the update of imageUrl is sent (line 71), without one, or with a
\* lookup that failed, nothing follows
fetchImageForTodoAnswered(imageFound) ==
    /\ pc = "app"
    /\ BagIn(ImageLookup, pending)
    /\ pending' = IF imageFound THEN Replaced(ImageLookup, SaveImage)
                  ELSE Removed(ImageLookup)
    /\ UNCHANGED <<store, nextId, todos, selectedDependencies, editingTodoId,
                   editDependencies, zone, clock, todosWithCriticalPath, pc,
                   levels, runs, showGraph>>

\* the update of imageUrl is answered: fetchTodos (line 76)
fetchImageForTodoSaved ==
    /\ pc = "app"
    /\ BagIn(SaveImage, pending)
    /\ pending' = Replaced(SaveImage, FetchTodos)
    /\ UNCHANGED <<store, nextId, todos, selectedDependencies, editingTodoId,
                   editDependencies, zone, clock, todosWithCriticalPath, pc,
                   levels, runs, showGraph>>

\* handleDeleteTodo of the todo at position i, up to the await of line 85
handleDeleteTodo(i) ==
    /\ Rendered
    /\ CanSend
    /\ i \in DOMAIN todos
    /\ pending' = Sent(DeleteTodo(todos[i].id))
    /\ UNCHANGED <<store, nextId, todos, selectedDependencies, editingTodoId,
                   editDependencies, zone, clock, todosWithCriticalPath, pc,
                   levels, runs, showGraph>>

\* the route handles a DELETE /api/todos/[id]
DELETERoute(id) ==
    /\ pc = "app"
    /\ BagIn(DeleteTodo(id), pending)
    /\ \E a \in {DELETE(store, id)} :
          /\ store' = a.store
          /\ pending' = Replaced(DeleteTodo(id),
                                 Answer("DELETE /api/todos/[id]", a.status, <<>>))
    /\ UNCHANGED <<nextId, todos, selectedDependencies, editingTodoId,
                   editDependencies, zone, clock, todosWithCriticalPath, pc,
                   levels, runs, showGraph>>

\* handleDeleteTodo after the await of line 85, whatever the status of the
\* answer: fetchTodos (line 88)
handleDeleteTodoAnswered(status) ==
    /\ pc = "app"
    /\ BagIn(Answer("DELETE /api/todos/[id]", status, <<>>), pending)
    /\ pending' = Replaced(Answer("DELETE /api/todos/[id]", status, <<>>),
                           FetchTodos)
    /\ UNCHANGED <<store, nextId, todos, selectedDependencies, editingTodoId,
                   editDependencies, zone, clock, todosWithCriticalPath, pc,
                   levels, runs, showGraph>>

\* handleToggleComplete of the todo at position i, up to the await of line
\* 96; completed is not followed
handleToggleComplete(i) ==
    /\ Rendered
    /\ CanSend
    /\ i \in DOMAIN todos
    /\ pending' = Sent(SaveCompleted)
    /\ UNCHANGED <<store, nextId, todos, selectedDependencies, editingTodoId,
                   editDependencies, zone, clock, todosWithCriticalPath, pc,
                   levels, runs, showGraph>>

\* the update of completed is answered: fetchTodos (line 101)
handleToggleCompleteAnswered ==
    /\ pc = "app"
    /\ BagIn(SaveCompleted, pending)
    /\ pending' = Replaced(SaveCompleted, FetchTodos)
    /\ UNCHANGED <<store, nextId, todos, selectedDependencies, editingTodoId,
                   editDependencies, zone, clock, todosWithCriticalPath, pc,
                   levels, runs, showGraph>>

\* the Edit Dependencies button of the todo at position i; the todo whose
\* form is open shows the form in its place (line 298)
startEditingDependencies(i) ==
    /\ pc \in {"app", "guard"}
    /\ ~RenderThrows
    /\ i \in DOMAIN todos
    /\ editingTodoId # todos[i].id
    /\ editingTodoId' = todos[i].id
    /\ editDependencies' = Range(todos[i].dependencies)
    /\ levels' = Drawn(todos, showGraph, todos[i].id)
    /\ UNCHANGED <<store, nextId, todos, selectedDependencies, zone, clock,
                   todosWithCriticalPath, pc, pending, runs, showGraph>>

\* a checkbox of the edit form
ToggleEditDependency(id) ==
    /\ Rendered
    /\ FindIndex(todos, editingTodoId) # 0
    /\ Includes(getAvailableDependencies(todos, editingTodoId).ids, id)
    /\ id \in editDependencies \/ Cardinality(editDependencies) < MaxTicked
    /\ editDependencies' =
          IF id \in editDependencies THEN editDependencies \ {id}
          ELSE editDependencies \cup {id}
    /\ UNCHANGED <<store, nextId, todos, selectedDependencies, editingTodoId,
                   zone, clock, todosWithCriticalPath, pc, levels, pending,
                   runs, showGraph>>

\* the Save button of the edit form: handleUpdateDependencies up to the
\* await of line 109, the PUT carries the ticks of this rendering
handleUpdateDependencies ==
    /\ Rendered
    /\ CanSend
    /\ FindIndex(todos, editingTodoId) # 0
    /\ pending' = Sent(SaveDependencies(editingTodoId, editDependencies))
    /\ UNCHANGED <<store, nextId, todos, selectedDependencies, editingTodoId,
                   editDependencies, zone, clock, todosWithCriticalPath, pc,
                   levels, runs, showGraph>>

\* the route handles a PUT /api/todos/[id] with dependencyIds
PUTRoute(id, dependencyIds) ==
    /\ pc = "app"
    /\ BagIn(SaveDependencies(id, dependencyIds), pending)
    /\ \E a \in {PUT(store, id, SaveDependencies(id, dependencyIds).body)} :
          /\ store' = a.store
          /\ pending' = Replaced(SaveDependencies(id, dependencyIds),
                                 Answer("PUT /api/todos/[id]", a.status, <<>>))
    /\ UNCHANGED <<nextId, todos, selectedDependencies, editingTodoId,
                   editDependencies, zone, clock, todosWithCriticalPath, pc,
                   levels, runs, showGraph>>

\* handleUpdateDependencies from line 114 on, whatever the status of the
\* answer: whichever form is open is closed, and fetchTodos (line 116)
handleUpdateDependenciesAnswered(status) ==
    /\ pc = "app"
    /\ BagIn(Answer("PUT /api/todos/[id]", status, <<>>), pending)
    /\ editingTodoId' = IF RenderThrows THEN editingTodoId ELSE 0
    /\ editDependencies' = IF RenderThrows THEN editDependencies ELSE {}
    /\ pending' = Replaced(Answer("PUT /api/todos/[id]", status, <<>>),
                           FetchTodos)
    /\ UNCHANGED <<store, nextId, todos, selectedDependencies, zone, clock,
                   todosWithCriticalPath, pc, levels, runs, showGraph>>

\* the Cancel button of the edit form
CancelEditing ==
    /\ pc \in {"app", "guard"}
    /\ ~RenderThrows
    /\ FindIndex(todos, editingTodoId) # 0
    /\ editingTodoId' = 0
    /\ editDependencies' = {}
    /\ UNCHANGED <<store, nextId, todos, selectedDependencies, zone, clock,
                   todosWithCriticalPath, pc, levels, pending, runs, showGraph>>

\* the route handles a GET /api/todos: the answer holds the table as it
\* is now
GETRoute ==
    /\ pc = "app"
    /\ BagIn(FetchTodos, pending)
    /\ pending' = Replaced(FetchTodos, Answer("GET /api/todos", 200, GET(store)))
    /\ UNCHANGED <<store, nextId, todos, selectedDependencies, editingTodoId,
                   editDependencies, zone, clock, todosWithCriticalPath, pc,
                   levels, runs, showGraph>>

\* the answers to GET /api/todos on their way
Lists ==
    {r \in BagToSet(pending) : r.kind = "GET /api/todos" /\ r.phase = "answered"}

\* fetchTodos from line 32 on: setTodos(data), alone, with the list of one
\* of the answers; without Home nothing is set
fetchTodosAnswered(gap) ==
    /\ pc = "app"
    /\ \E r \in Lists :
          /\ pending' = Removed(r)
          /\ IF RenderThrows
             THEN UNCHANGED <<todos, clock, todosWithCriticalPath, levels, runs>>
             ELSE /\ runs < MaxRuns
                  /\ runs' = runs + 1
                  /\ SetTodos(r.data, gap)
    /\ UNCHANGED <<store, nextId, selectedDependencies, editingTodoId,
                   editDependencies, zone, pc, showGraph>>

\* the days of the date input: empty, or day MaxDueDay
DueDayChoices == {0, MaxDueDay}

\* the statuses of the answers of the routes
Statuses == {200, 201, 500}

\* a Todo table of MaxTodos todos without dependencies, the first of them
\* due on day MaxDueDay
StoredTodos ==
    [t \in 1..MaxTodos |->
        [dueDate |-> IF t = 1 THEN DueDateOf(MaxDueDay) ELSE Null,
         dependencies |-> {}]]

\* the Todo table when Home is loaded: empty, or StoredTodos
InitStores == {<<>>, StoredTodos}

\* Home after its first rendering: the useMemo has run on the empty list,
\* in the last millisecond of day NowDay, and the effect of lines 25-27 has
\* sent the first fetchTodos
Init ==
    /\ pc = "app"
    /\ store \in InitStores
    /\ nextId = Cardinality(DOMAIN store) + 1
    /\ todos = <<>>
    /\ selectedDependencies = {}
    /\ editingTodoId = 0
    /\ editDependencies = {}
    /\ zone \in SessionZones
    /\ clock = Ticking(EndOfDay(NowDay))
    /\ todosWithCriticalPath = calculateCriticalPath(<<>>, zone, clock)
    /\ levels = <<>>
    /\ pending = SetToBag({FetchTodos})
    /\ runs = 0
    /\ showGraph = FALSE

Next ==
    \/ setShowGraph
    \/ \E id \in 1..MaxTodos : ToggleSelectedDependency(id)
    \/ \E dueDay \in DueDayChoices : handleAddTodo(dueDay)
    \/ \E dueDay \in DueDayChoices, dependencyIds \in SUBSET (1..MaxTodos) :
          POSTRoute(dueDay, dependencyIds)
    \/ \E status \in Statuses : handleAddTodoAnswered(status)
    \/ \E imageFound \in BOOLEAN : fetchImageForTodoAnswered(imageFound)
    \/ fetchImageForTodoSaved
    \/ \E i \in 1..MaxTodos : handleDeleteTodo(i)
    \/ \E id \in 1..MaxTodos : DELETERoute(id)
    \/ \E status \in Statuses : handleDeleteTodoAnswered(status)
    \/ \E i \in 1..MaxTodos : handleToggleComplete(i)
    \/ handleToggleCompleteAnswered
    \/ \E i \in 1..MaxTodos : startEditingDependencies(i)
    \/ \E id \in 1..MaxTodos : ToggleEditDependency(id)
    \/ handleUpdateDependencies
    \/ \E id \in 1..MaxTodos, dependencyIds \in SUBSET (1..MaxTodos) :
          PUTRoute(id, dependencyIds)
    \/ \E status \in Statuses : handleUpdateDependenciesAnswered(status)
    \/ CancelEditing
    \/ GETRoute
    \/ \E gap \in SessionGaps : fetchTodosAnswered(gap)

Spec == Init /\ [][Next]_vars

----------------------------------------------------------------------------
(* The cycle check as a function of the fetched list: SpecGuard *)

InitGuard ==
    /\ pc = "guard"
    /\ store = <<>>
    /\ nextId = 1
    /\ selectedDependencies = {}
    /\ editingTodoId = 0
    /\ editDependencies = {}
    /\ zone = FixedZone(0)
    /\ clock = Steady(NowDay * MsPerDay)
    /\ \E n \in 0..MaxGuardTasks :
         \E E \in EdgeSets(n, MaxGuardEdges), asc \in BOOLEAN :
            todos = TaskList(n, E, [i \in 1..n |-> Null], asc)
    /\ todosWithCriticalPath = NoResult
    /\ levels = <<>>
    /\ pending = EmptyBag
    /\ runs = 0
    /\ showGraph = FALSE

NextGuard ==
    \/ \E i \in 1..MaxGuardTasks : startEditingDependencies(i)
    \/ CancelEditing

SpecGuard == InitGuard /\ [][NextGuard]_vars

----------------------------------------------------------------------------
(* The layout as a function of the fetched list: SpecLayout *)

\* the fetched list handed to DependencyGraph
InitLayout ==
    /\ pc = "layout"
    /\ store = <<>>
    /\ nextId = 1
    /\ selectedDependencies = {}
    /\ editingTodoId = 0
    /\ editDependencies = {}
    /\ zone = FixedZone(0)
    /\ clock = Steady(NowDay * MsPerDay)
    /\ \E n \in 1..MaxGuardTasks :
         \E E \in EdgeSets(n, MaxGuardEdges), asc \in BOOLEAN :
            todos = TaskList(n, E, [i \in 1..n |-> Null], asc)
    /\ todosWithCriticalPath = NoResult
    /\ levels = <<>>
    /\ pending = EmptyBag
    /\ runs = 0
    /\ showGraph = FALSE

\* one rendering of DependencyGraph, up to line 403
DependencyGraph ==
    /\ pc = "layout"
    /\ pc' = "drawn"
    /\ levels' = LevelsLoop(todos, <<>>, 1)
    /\ UNCHANGED <<store, nextId, todos, selectedDependencies, editingTodoId,
                   editDependencies, zone, clock, todosWithCriticalPath,
                   pending, runs, showGraph>>

SpecLayout == InitLayout /\ [][DependencyGraph]_vars

----------------------------------------------------------------------------
(* One dependency update against any stored relation: SpecStore *)

\* relations over todos 1..n with at most k entries, a todo depending on
\* itself included
RelationSets(n, k) ==
    {E \in SUBSET ((1..n) \X (1..n)) : Cardinality(E) <= k}

\* the Todo table of todos 1..n without due dates, related by E
StoreOf(n, E) ==
    [t \in 1..n |->
        [dueDate |-> Null, dependencies |-> {e[2] : e \in {x \in E : x[1] = t}}]]

\* the bodies of a dependency update with the ids L: dependencyIds alone,
\* as handleUpdateDependencies sends it, or with a dueDate, empty or not
UpdateBodies(L) ==
    {[dependencyIds |-> L]}
        \cup {[dependencyIds |-> L, dueDate |-> d] : d \in {0, MaxDueDay}}

\* Home holding the fetched list, and a dependency update on its way: for
\* todo editingTodoId, stored or not, with the ids editDependencies, of
\* stored todos or not
InitStore ==
    /\ pc = "put"
    /\ \E n \in 1..MaxStoreTodos : \E E \in RelationSets(n, MaxEdges) :
         /\ store = StoreOf(n, E)
         /\ nextId = n + 1
    /\ editingTodoId \in 1..MaxStoreTodos
    /\ editDependencies \in SUBSET (1..MaxStoreTodos)
    /\ \E body \in UpdateBodies(editDependencies) :
          pending = SetToBag({Request("PUT /api/todos/[id]", editingTodoId, body)})
    /\ todos = GET(store)
    /\ selectedDependencies = {}
    /\ zone = FixedZone(0)
    /\ clock = Steady(NowDay * MsPerDay)
    /\ todosWithCriticalPath = NoResult
    /\ levels = <<>>
    /\ runs = 0
    /\ showGraph = FALSE

\* the route handles the update; the list in todos is the one fetched
\* before it, and the answer is on its way to the page
PutDependencies ==
    /\ pc = "put"
    /\ pc' = "done"
    /\ \E r \in BagToSet(pending) : \E a \in {PUT(store, r.id, r.body)} :
          /\ store' = a.store
          /\ pending' = Replaced(r, Answer("PUT /api/todos/[id]", a.status, <<>>))
    /\ UNCHANGED <<nextId, todos, selectedDependencies, editingTodoId,
                   editDependencies, zone, clock, todosWithCriticalPath,
                   levels, runs, showGraph>>

SpecStore == InitStore /\ [][PutDependencies]_vars

----------------------------------------------------------------------------
(* Properties *)

\* the ids a set of tasks depends on directly
Successors(list, S) ==
    UNION {Range(list[i].dependencies) : i \in {j \in DOMAIN list : list[j].id \in S}}

RECURSIVE Grow(_, _)
Grow(list, R) ==
    LET R1 == R \cup Successors(list, R)
    IN  IF R1 = R THEN R ELSE Grow(list, R1)

\* the ids reachable from id through one or more dependency edges
Reachable(list, id) == Grow(list, Successors(list, {id}))

Acyclic(list) == \A i \in DOMAIN list : list[i].id \notin Reachable(list, list[i].id)

ListIds(list) == Range(IdsOf(list))

\* ids are unique, every dependency is a listed task, and the dependents
\* lists are the inverse of the dependency lists
Consistent(list) ==
    /\ \A i, j \in DOMAIN list : list[i].id = list[j].id => i = j
    /\ \A i \in DOMAIN list :
         /\ Range(list[i].dependencies) \subseteq ListIds(list)
         /\ Range(list[i].dependents) =
               {list[j].id : j \in {k \in DOMAIN list :
                                       Includes(list[k].dependencies, list[i].id)}}

\* a schedule has been computed from todos
Computed == pc \in {"done", "app"}

Schedule == todosWithCriticalPath.todoMap

\* the instants the clock returned to the readings of the run
ReferenceTimes ==
    {ReadClock(clock, k) : k \in 1..todosWithCriticalPath.reads}

SetMax(S) == CHOOSE x \in S : \A y \in S : y <= x
SetMin(S) == CHOOSE x \in S : \A y \in S : x <= y

AllTimesSet(t) ==
    /\ t.earliestStartDate # Null
    /\ t.earliestFinishDate # Null
    /\ t.latestStartDate # Null
    /\ t.latestFinishDate # Null

\* the edit form of a listed todo is open and rendered
EditingListed ==
    /\ pc = "app"
    /\ editingTodoId # 0
    /\ FindIndex(todos, editingTodoId) # 0
    /\ ~RenderThrows

\* C1: while the dependencies of a task X are edited, no task that depends
\* on X, directly or transitively, is among the candidates
\* getAvailableDependencies(X) offers.
C1_CycleCandidateExcluded ==
    EditingListed =>
        \A i \in DOMAIN todos :
            editingTodoId \in Reachable(todos, todos[i].id) =>
                ~Includes(getAvailableDependencies(todos, editingTodoId).ids,
                          todos[i].id)

\* C2: the stored dependency relation stays acyclic under creations and
\* dependency edits made through the editing surface.
C2_StoreAcyclic == pc = "app" => Acyclic(GET(store))

\* C3: on an acyclic list, wouldCreateCycle(todoId, targetId) returns, and
\* returns true exactly when targetId is reachable from todoId through one
\* or more dependency edges.
C3_CycleCheckIsReachability ==
    (pc = "guard" /\ editingTodoId # 0 /\ Acyclic(todos)) =>
        \A i \in DOMAIN todos :
            LET r == wouldCreateCycle(todos, editingTodoId, todos[i].id, {})
            IN  /\ ~r.overflow
                /\ r.value <=> todos[i].id \in Reachable(todos, editingTodoId)

\* the edit form is open on a task of an acyclic list from which some task
\* is reached by three dependency edges and by no fewer, and the check
\* says true for it
C3_Witness ==
    /\ pc = "guard" /\ editingTodoId # 0 /\ Acyclic(todos)
    /\ \E i \in DOMAIN todos :
         LET one == Successors(todos, {editingTodoId})
             two == Successors(todos, one)
             three == Successors(todos, two)
         IN  /\ todos[i].id \in three \ (one \cup two)
             /\ wouldCreateCycle(todos, editingTodoId, todos[i].id, {}).value

\* C4: in the schedule of an acyclic, consistent list, for every dependency
\* edge (A depends on B): earliestStart(A) >= earliestFinish(B) and
\* latestFinish(B) <= latestStart(A).
C4_EdgeOrdering ==
    (Computed /\ Acyclic(todos) /\ Consistent(todos)) =>
        \A i \in DOMAIN todos : \A b \in Range(todos[i].dependencies) :
            LET A == Schedule[todos[i].id]
                B == Schedule[b]
            IN  /\ AllTimesSet(A) /\ AllTimesSet(B)
                /\ Time(A.earliestStartDate) >= Time(B.earliestFinishDate)
                /\ Time(B.latestFinishDate) <= Time(A.latestStartDate)

\* C5: for every task of the returned schedule and every input,
\* earliestFinish = earliestStart + duration and
\* latestStart = latestFinish - duration, whenever the fields are set.
C5_FinishIsStartPlusDuration ==
    Computed =>
        \A id \in DOMAIN Schedule :
            LET t == Schedule[id] IN
            /\ t.earliestStartDate # Null =>
                  /\ t.earliestFinishDate # Null
                  /\ Time(t.earliestFinishDate) =
                        Time(t.earliestStartDate) + t.duration * MsPerDay
            /\ t.latestFinishDate # Null =>
                  /\ t.latestStartDate # Null
                  /\ Time(t.latestStartDate) =
                        Time(t.latestFinishDate) - t.duration * MsPerDay

\* C6: for every task of the returned schedule, slack is
\* max(0, latestStart - earliestStart) of its final times (slack holds the
\* numerator in milliseconds of the value in days), hence slack >= 0.
C6_SlackClamped ==
    Computed =>
        \A id \in DOMAIN Schedule :
            LET t == Schedule[id] IN
            /\ t.slack >= 0
            /\ (t.earliestStartDate # Null /\ t.latestStartDate # Null) =>
                  t.slack = Max(0, Time(t.latestStartDate) - Time(t.earliestStartDate))

\* a task whose due date puts its latest start before its earliest start,
\* reported with slack 0
C6_Witness ==
    /\ pc = "done"
    /\ \E id \in DOMAIN Schedule :
         LET t == Schedule[id] IN
         /\ t.dueDate # Null
         /\ AllTimesSet(t)
         /\ Time(t.latestStartDate) < Time(t.earliestStartDate)
         /\ t.slack = 0

\* C7: forward pass on an acyclic list: the run has one reference time
\* now; a task without dependencies starts at it, a task with dependencies
\* at the maximum earliestFinish of its dependencies, whatever the order
\* of the task list and of the dependency lists.
C7_ForwardPass ==
    (Computed /\ Acyclic(todos) /\ Consistent(todos)) =>
        \E r \in ReferenceTimes :
            \A i \in DOMAIN todos :
                LET t == Schedule[todos[i].id]
                    deps == Range(todos[i].dependencies)
                IN  /\ t.earliestStartDate # Null
                    /\ deps = {} => Time(t.earliestStartDate) = r
                    /\ deps # {} =>
                          /\ \A d \in deps : Schedule[d].earliestFinishDate # Null
                          /\ Time(t.earliestStartDate) =
                                SetMax({Time(Schedule[d].earliestFinishDate) : d \in deps})

\* the project end date: the latest earliest finish of all tasks, or the
\* clock as read after the forward pass if that is later
ProjectEnd ==
    SetMax({LastReading} \cup
           {Time(Schedule[id].earliestFinishDate) : id \in DOMAIN Schedule})

\* C8: backward pass on an acyclic list: a task without dependents has
\* latestFinish = its due date if set, else the project end date; a task
\* with dependents has latestFinish = the minimum latestStart of its
\* dependents.
C8_BackwardPass ==
    (Computed /\ Acyclic(todos) /\ Consistent(todos)) =>
        \A i \in DOMAIN todos :
            LET t == Schedule[todos[i].id]
                dependents == Range(todos[i].dependents)
            IN  /\ t.latestFinishDate # Null
                /\ (dependents = {} /\ t.dueDate # Null) =>
                      t.latestFinishDate = todos[i].dueDate
                /\ (dependents = {} /\ t.dueDate = Null) =>
                      Time(t.latestFinishDate) = ProjectEnd
                /\ dependents # {} =>
                      /\ \A d \in dependents : Schedule[d].latestStartDate # Null
                      /\ Time(t.latestFinishDate) =
                            SetMin({Time(Schedule[d].latestStartDate) : d \in dependents})

\* a schedule of an acyclic list in which a task with a due date has two
\* dependents with different latest starts, and the first of them in list
\* order starts earlier
C8_Witness ==
    /\ pc = "done" /\ Acyclic(todos) /\ Consistent(todos)
    /\ \E i \in DOMAIN todos :
         LET ds == DependentsOf(todos, todos[i].id) IN
         /\ todos[i].dueDate # Null
         /\ Len(ds) = 2
         /\ Time(Schedule[ds[1]].latestStartDate) < Time(Schedule[ds[2]].latestStartDate)
         /\ Time(Schedule[todos[i].id].latestFinishDate) =
               Time(Schedule[ds[1]].latestStartDate)

ReportedPath == todosWithCriticalPath.criticalPath

\* C9: if the reported critical path is non-empty, every consecutive pair
\* (p, q) of it is a dependency edge (q depends on p) and every task of it
\* has slack exactly 0.
C9_PathIsZeroSlackChain ==
    Computed =>
        /\ \A k \in DOMAIN ReportedPath :
              /\ ReportedPath[k] \in DOMAIN Schedule
              /\ Schedule[ReportedPath[k]].slack = 0
        /\ \A k \in 1..(Len(ReportedPath) - 1) :
              \E i \in DOMAIN todos :
                 /\ todos[i].id = ReportedPath[k + 1]
                 /\ Includes(todos[i].dependencies, ReportedPath[k])

\* a reported path of two or more tasks, traced past a first dependency
\* that has slack to the second, which has none
C9_Witness ==
    /\ pc = "done"
    /\ Len(ReportedPath) >= 2
    /\ \E k \in 2..Len(ReportedPath) :
         LET deps == Schedule[ReportedPath[k]].dependencies IN
         /\ Len(deps) = 2
         /\ Schedule[deps[1]].slack > 0
         /\ ReportedPath[k - 1] = deps[2]

RECURSIVE SumDurations(_, _)
SumDurations(map, path) ==
    IF path = <<>> THEN 0
    ELSE map[Head(path)].duration + SumDurations(map, Tail(path))

\* C10: on an acyclic list, when the reported critical path is non-empty,
\* the durations of its tasks add up to the project end date minus the
\* run's reference time now (an instant the clock returned to the run).
C10_PathSpansProject ==
    (Computed /\ Acyclic(todos) /\ Consistent(todos) /\ ReportedPath # <<>>) =>
        \E r \in ReferenceTimes :
            SumDurations(Schedule, ReportedPath) * MsPerDay =
                todosWithCriticalPath.projectEndDate - r

\* C11: in the returned map a task has isCritical = true exactly when its
\* id is in the reported path; such a task's criticalPath is the whole
\* reported path, and every other task has isCritical = false and an empty
\* criticalPath, whatever its slack.
C11_MarkedIffOnPath ==
    Computed =>
        \A id \in DOMAIN Schedule :
            LET t == Schedule[id] IN
            /\ t.isCritical <=> Includes(ReportedPath, id)
            /\ Includes(ReportedPath, id) => t.criticalPath = ReportedPath
            /\ ~Includes(ReportedPath, id) => t.criticalPath = <<>>

\* a non-empty reported path whose tasks are marked, beside a task without
\* slack that is not on it and is not marked
C11_Witness ==
    /\ pc = "done"
    /\ ReportedPath # <<>>
    /\ \A k \in DOMAIN ReportedPath : Schedule[ReportedPath[k]].isCritical
    /\ \E id \in DOMAIN Schedule :
         /\ Schedule[id].slack = 0
         /\ ~Includes(ReportedPath, id)
         /\ ~Schedule[id].isCritical

\* the positions in the list of the tasks with no dependents and slack 0
CriticalSinks ==
    {i \in DOMAIN todos :
        /\ Len(todos[i].dependents) = 0
        /\ Schedule[todos[i].id].slack = 0}

\* C12: the reported path ends at the first task, in list order, that has
\* no dependents and slack 0; if there is no such task the reported path is
\* empty and no task is marked critical.
C12_PathEndsAtFirstCriticalSink ==
    Computed =>
        IF CriticalSinks = {}
        THEN /\ ReportedPath = <<>>
             /\ \A id \in DOMAIN Schedule : ~Schedule[id].isCritical
        ELSE /\ ReportedPath # <<>>
             /\ ReportedPath[Len(ReportedPath)] = todos[SetMin(CriticalSinks)].id

\* every dependency of every task is a task of the list
NoDangling(list) ==
    \A i \in DOMAIN list : Range(list[i].dependencies) \subseteq ListIds(list)

\* C13: on an acyclic list without dangling references the backward trace
\* stops only at a source: the first task of a non-empty reported path has
\* no dependencies.
C13_TraceStopsAtSource ==
    (Computed /\ Acyclic(todos) /\ NoDangling(todos) /\ ReportedPath # <<>>) =>
        Schedule[ReportedPath[1]].dependencies = <<>>

\* C14: for every input list, cyclic ones included, every recursive
\* traversal of the run terminates: none recurses until the stack is
\* exhausted.
C14_TraversalsTerminate == Computed => ~todosWithCriticalPath.error

Log == todosWithCriticalPath.log

\* the tasks on a dependency cycle
OnCycle(list) == {id \in ListIds(list) : id \in Reachable(list, id)}

\* C15 as stated: every task on a dependency cycle is returned with its
\* four times unset.
C15_CycleTasksUnset ==
    Computed =>
        \A id \in OnCycle(todos) :
            LET t == Schedule[id] IN
            /\ t.earliestStartDate = Null
            /\ t.earliestFinishDate = Null
            /\ t.latestStartDate = Null
            /\ t.latestFinishDate = Null

\* between two assignments of the same kind to the same task a new
\* top-level call has started
OncePerTraversal(assign, call) ==
    \A k, l \in DOMAIN Log :
        (k < l /\ Log[k].op = assign /\ Log[l].op = assign /\ Log[k].id = Log[l].id) =>
            \E m \in (k + 1)..(l - 1) : Log[m].op = call

\* C15 (amended): on a list with a dependency cycle, a task met again
\* within one top-level traversal is left untouched by that visit, and
\* every task, those on the cycle included, is returned with its four
\* times set.
C15_CycleTasksSet ==
    (Computed /\ ~Acyclic(todos)) =>
        /\ OncePerTraversal("earliest", "forward")
        /\ OncePerTraversal("latest", "backward")
        /\ \A id \in DOMAIN Schedule : AllTimesSet(Schedule[id])

\* a schedule of a cyclic list in which a task on the cycle has its four
\* times set, its earliest finish written by one traversal and written
\* again, with another value, by a later one
C15_Witness ==
    /\ pc = "done"
    /\ \E id \in OnCycle(todos) :
         /\ AllTimesSet(Schedule[id])
         /\ \E k, l \in DOMAIN Log :
               /\ k < l
               /\ Log[k].op = "earliest" /\ Log[l].op = "earliest"
               /\ Log[k].id = id /\ Log[l].id = id
               /\ Log[k].value # Log[l].value

\* the list with the dependency ids that name no task of it removed
Pruned(list) ==
    [i \in DOMAIN list |->
        [list[i] EXCEPT !.dependencies = SeqFilterIds(@, ListIds(list))]]

\* the computed fields of a scheduled task
ComputedFields(t) ==
    <<t.duration, t.earliestStartDate, t.earliestFinishDate, t.latestStartDate,
      t.latestFinishDate, t.slack, t.isCritical, t.criticalPath>>

\* C16: a dependency id that names no task of the list is skipped: the run
\* completes and every task's computed fields are those of the run on the
\* same list with the dangling ids removed; a task whose dependencies are
\* all dangling starts at the run's reference time now (an instant the
\* clock returned to the run).
C16_DanglingSkipped ==
    (pc = "done" /\ ~NoDangling(todos)) =>
        LET clean == calculateCriticalPath(Pruned(todos), zone, clock) IN
        /\ ~todosWithCriticalPath.error
        /\ \A id \in DOMAIN Schedule :
              ComputedFields(Schedule[id]) = ComputedFields(clean.todoMap[id])
        /\ \A i \in DOMAIN todos :
              (/\ todos[i].dependencies # <<>>
               /\ Range(todos[i].dependencies) \cap ListIds(todos) = {}) =>
                  /\ Schedule[todos[i].id].earliestStartDate # Null
                  /\ Time(Schedule[todos[i].id].earliestStartDate) \in ReferenceTimes

\* midnight of the local day of instant t, for a zone whose offset does
\* not change at midnight
StartOfLocalDay(tz, t) ==
    LET m == t - (LocalTime(tz, t) % MsPerDay)
    IN  m + (Offset(tz, t) - Offset(tz, m))

\* the clock reading behind the duration of the i-th task of the list: the
\* readings of the initialization are made in list order, one for every
\* task with a due date
TodayOf(list, i) ==
    ReadClock(clock, Cardinality({j \in 1..i : list[j].dueDate # Null}))

\* C17: duration is 1 without a due date, else max(1, ceil of the days from
\* today's midnight to the due date's midnight), midnights being those of
\* the local zone and today the day of the clock when the task is
\* initialized; so duration >= 1, and a due date today or in the past
\* gives 1.
C17_Duration ==
    pc = "done" =>
        \A i \in DOMAIN todos :
            LET t == Schedule[todos[i].id]
                due == todos[i].dueDate
                today == StartOfLocalDay(zone, TodayOf(todos, i))
            IN  /\ t.duration >= 1
                /\ due = Null => t.duration = 1
                /\ due # Null =>
                      t.duration =
                         Max(1, Ceil(StartOfLocalDay(zone, Time(due)) - today, MsPerDay))
                /\ (due # Null /\ StartOfLocalDay(zone, Time(due)) <= today) =>
                      t.duration = 1

\* a run that starts in the last millisecond of a day, over two tasks due
\* on the same later day: midnight passes between the two readings of the
\* clock and the second task is given a day less than the first
C17_Witness ==
    /\ pc = "done"
    /\ Len(todos) = 2
    /\ todos[1].dueDate # Null
    /\ todos[1].dueDate = todos[2].dueDate
    /\ Schedule[todos[1].id].duration = Schedule[todos[2].id].duration + 1

\* C19: a list of a single task without dependencies and dependents, with
\* or without a due date, yields the critical path of that one task, and
\* the task is marked critical.
C19_SingleTaskCritical ==
    (/\ pc = "done"
     /\ Len(todos) = 1
     /\ todos[1].dependencies = <<>>
     /\ todos[1].dependents = <<>>) =>
        /\ ReportedPath = <<todos[1].id>>
        /\ Schedule[todos[1].id].isCritical

\* the last event before position k that assigns the times named by op to
\* task id; 0 when there is none
LastAssignBefore(k, op, id) ==
    LET hits == {j \in 1..(k - 1) : Log[j].op = op /\ Log[j].id = id}
    IN  IF hits = {} THEN 0 ELSE SetMax(hits)

\* C20: on an acyclic list, whenever a task's earliest times are assigned,
\* each of its dependencies already holds its final earliestFinish;
\* whenever a task's latest times are assigned, each of its dependents
\* already holds its final latestStart; and nothing of the backward pass
\* happens before the forward pass and the project end date are done.
C20_DependenciesFirst ==
    (pc = "done" /\ Acyclic(todos) /\ Consistent(todos)) =>
        /\ \A k \in DOMAIN Log :
              Log[k].op = "earliest" =>
                 \A d \in Successors(todos, {Log[k].id}) :
                    LET j == LastAssignBefore(k, "earliest", d) IN
                    /\ j # 0
                    /\ Log[j].value = Time(Schedule[d].earliestFinishDate)
        /\ \A k \in DOMAIN Log :
              Log[k].op = "latest" =>
                 \A d \in Range(DependentsOf(todos, Log[k].id)) :
                    LET j == LastAssignBefore(k, "latest", d) IN
                    /\ j # 0
                    /\ Log[j].value = Time(Schedule[d].latestStartDate)
        /\ \E e \in DOMAIN Log :
              /\ Log[e].op = "projectEnd"
              /\ \A k \in DOMAIN Log :
                    /\ Log[k].op \in {"forward", "earliest"} => k < e
                    /\ Log[k].op \in {"backward", "latest"} => k > e
        /\ \A i \in DOMAIN todos :
              /\ \E k \in DOMAIN Log : Log[k].op = "earliest" /\ Log[k].id = todos[i].id
              /\ \E k \in DOMAIN Log : Log[k].op = "latest" /\ Log[k].id = todos[i].id

\* the list with every dependents field replaced by the tasks of the list
\* whose dependency list contains the task
DerivedDependents(list) ==
    [i \in DOMAIN list |->
        [list[i] EXCEPT !.dependents = DependentsOf(list, list[i].id)]]

\* C21: the engine takes a task's dependents, in the backward pass and in
\* the choice of the sink, to be the tasks whose dependency list contains
\* it, whatever the supplied dependents field holds: the schedule and the
\* reported path are those of the list with the derived dependents.
C21_DependentsDerived ==
    pc = "done" =>
        LET derived == calculateCriticalPath(DerivedDependents(todos), zone, clock) IN
        /\ ReportedPath = derived.criticalPath
        /\ \A id \in DOMAIN Schedule :
              ComputedFields(Schedule[id]) = ComputedFields(derived.todoMap[id])

\* the dependencies todo t had in the list fetched before the update
FetchedDependencies(t) == Range(todos[FindIndex(todos, t)].dependencies)

\* the status of the answer to the dependency update of SpecStore
UpdateStatus ==
    CHOOSE status \in Statuses :
        BagIn(Answer("PUT /api/todos/[id]", status, <<>>), pending)

\* the dependency lists are those of the fetched list
ListsKept ==
    /\ DOMAIN store = ListIds(todos)
    /\ \A t \in DOMAIN store : store[t].dependencies = FetchedDependencies(t)

\* C22: a dependency update PUT /api/todos/[id] with dependencyIds = L,
\* for a stored todo and with L the ids of stored todos, is carried out,
\* and leaves the todo with exactly the dependencies L, whatever it had
\* before, and every other todo with the dependencies it had.  Any other
\* dependency update is answered with an error and changes no list.
C22_UpdateReplaces ==
    (pc = "done" /\ editingTodoId # 0) =>
        IF editingTodoId \in ListIds(todos) /\ editDependencies \subseteq ListIds(todos)
        THEN /\ UpdateStatus = 200
             /\ DOMAIN store = ListIds(todos)
             /\ store[editingTodoId].dependencies = editDependencies
             /\ \A t \in DOMAIN store \ {editingTodoId} :
                   store[t].dependencies = FetchedDependencies(t)
        ELSE UpdateStatus = 500 /\ ListsKept

\* an update carried out that dropped a dependency the todo had and added
\* one it did not have, beside another todo that kept its dependencies
C22_Witness ==
    /\ pc = "done" /\ editingTodoId \in ListIds(todos)
    /\ UpdateStatus = 200
    /\ FetchedDependencies(editingTodoId) \ editDependencies # {}
    /\ editDependencies \ FetchedDependencies(editingTodoId) # {}
    /\ store[editingTodoId].dependencies = editDependencies
    /\ \E t \in DOMAIN store \ {editingTodoId} : store[t].dependencies # {}

\* C23: after a dependency update on a store in which no todo depends on
\* itself, no todo depends on itself: an own id among the dependencyIds is
\* rejected or ignored.
C23_NoSelfDependency ==
    (/\ pc = "done" /\ editingTodoId # 0
     /\ \A t \in ListIds(todos) : t \notin FetchedDependencies(t)) =>
        \A t \in DOMAIN store : t \notin store[t].dependencies

\* C24: every date of the engine's arithmetic is at midnight, so that
\* durations and slack are whole days: earliest and latest times fall on
\* local midnights and slack is a multiple of a day.
C24_WholeDays ==
    pc = "done" =>
        \A id \in DOMAIN Schedule :
            LET t == Schedule[id] IN
            /\ t.slack % MsPerDay = 0
            /\ t.earliestStartDate # Null =>
                  LocalTime(zone, Time(t.earliestStartDate)) % MsPerDay = 0
            /\ t.latestFinishDate # Null =>
                  LocalTime(zone, Time(t.latestFinishDate)) % MsPerDay = 0

\* C25: of the records the run builds, the forward pass writes only the
\* earliest times, the backward pass only the latest times and the slack,
\* the extractor only isCritical and criticalPath; id, due date, duration
\* and the dependency and dependents lists stay as initialized from the
\* supplied records.
C25_PhasesWriteOwnFields ==
    pc = "done" =>
        LET p == todosWithCriticalPath.phases IN
        \A i \in DOMAIN todos :
            LET id == todos[i].id IN
            /\ [p.forward[id] EXCEPT !.earliestStartDate = Null,
                                     !.earliestFinishDate = Null] = p.init[id]
            /\ [p.backward[id] EXCEPT !.latestStartDate = Null,
                                      !.latestFinishDate = Null,
                                      !.slack = 0] = p.forward[id]
            /\ [Schedule[id] EXCEPT !.isCritical = FALSE,
                                    !.criticalPath = <<>>] = p.backward[id]
            /\ Schedule[id].id = todos[i].id
            /\ Schedule[id].dueDate = todos[i].dueDate
            /\ Schedule[id].dependencies = todos[i].dependencies
            /\ Schedule[id].dependents = todos[i].dependents
            /\ Schedule[id].duration = p.init[id].duration

\* a run in which every phase wrote: a marked task with its four times
\* set, beside a task with a due date whose latest start lies before its
\* earliest start
C25_Witness ==
    /\ pc = "done"
    /\ \E id \in DOMAIN Schedule :
         /\ Schedule[id].isCritical
         /\ Schedule[id].criticalPath # <<>>
         /\ AllTimesSet(Schedule[id])
    /\ \E id \in DOMAIN Schedule :
         /\ Schedule[id].dueDate # Null
         /\ AllTimesSet(Schedule[id])
         /\ Time(Schedule[id].latestStartDate) < Time(Schedule[id].earliestStartDate)
         /\ Len(Schedule[id].dependencies) > 0

\* C26: after calculateLevel has run for every todo of an acyclic list, a
\* task without dependencies is at level 0, every other task one above
\* the highest level of its dependencies, and so every task is above each
\* of its dependencies, in every order of the list.
C26_LevelsAboveDependencies ==
    (pc = "drawn" /\ Acyclic(todos)) =>
        \A i \in DOMAIN todos :
            LET id == todos[i].id
                deps == Range(todos[i].dependencies)
            IN  /\ id \in DOMAIN levels
                /\ deps = {} => levels[id] = 0
                /\ deps # {} =>
                      /\ levels[id] = SetMax({levels[d] : d \in deps}) + 1
                      /\ \A d \in deps : levels[id] > levels[d]

\* C27: the cycle check ends for every stored graph the editing surface
\* can produce: getAvailableDependencies(id) returns for every listed task
\* id, also when the stored relation has a cycle.
C27_CandidateListReturns ==
    pc = "app" =>
        \A i \in DOMAIN todos :
            ~getAvailableDependencies(todos, todos[i].id).overflow

\* C28: once handleAddTodo has created a todo, the displayed list comes to
\* hold it, whether or not the image lookup returned a photo: when Home is
\* rendered and no request is on its way, every stored todo is in the list.
C28_CreatedTodoDisplayed ==
    (Rendered /\ pending = EmptyBag) => DOMAIN store \subseteq ListIds(todos)

====
